---- MODULE Spec2Model ----
(***************************************************************************)
(* IgdbParser::ParseSearchByTitleResponse (src/igdb/igdb_parser.cpp).      *)
(*                                                                         *)
(* The response text is a sequence of JSON tokens.  json::parse is the     *)
(* decoder of nlohmann::json run with allow_exceptions = false; the loop   *)
(* over the decoded value, the two field checks and the three return       *)
(* statements are one action each.                                         *)
(***************************************************************************)
EXTENDS Integers, Sequences, FiniteSets, TLC

VARIABLES
    pc,                  \* position of the call: "idle", "L16", "L21", "L24", "L32", "done", "thrown"
    json_response,       \* the argument of the call (a token sequence)
    json_obj,            \* the decoded document (igdb_parser.cpp:15)
    pos,                 \* position of the range-for iterator in json_obj (line 21)
    search_result_list,  \* the local igdb::SearchResultList (line 13)
    ret,                 \* the absl::StatusOr the caller receives
    memo                 \* what earlier calls returned, by input text

vars == <<pc, json_response, json_obj, pos, search_result_list, ret, memo>>

-----------------------------------------------------------------------------
(* Bounds of the model. *)

\* Longest top-level array among the input texts.
MaxLen == 3

\* Longest top-level array among the texts of the repeated-call specification.
MaxRepeatLen == 2

-----------------------------------------------------------------------------
(* Machine integers: a 64-bit word is four 16-bit limbs, least significant *)
(* first; an int is two.                                                   *)

Limb == 2^16

HalfLimb == 2^15

Zero64 == <<0, 0, 0, 0>>

\* w * 10 + d on a 64-bit word; carry is what does not fit.
MulAdd10(w, d) ==
    LET t1 == w[1] * 10 + d
        t2 == w[2] * 10 + (t1 \div Limb)
        t3 == w[3] * 10 + (t2 \div Limb)
        t4 == w[4] * 10 + (t3 \div Limb)
    IN  [word |-> <<t1 % Limb, t2 % Limb, t3 % Limb, t4 % Limb>>,
         carry |-> t4 \div Limb]

\* The magnitude of a digit string, with the range error strtoull reports:
\* the digits from position i on, acc being the value of those before.
RECURSIVE Accumulate(_, _, _)
Accumulate(digits, i, acc) ==
    IF acc.erange \/ i > Len(digits) THEN acc
    ELSE LET step == MulAdd10(acc.word, digits[i])
         IN  Accumulate(digits, i + 1, [word |-> step.word, erange |-> step.carry # 0])

Magnitude(digits) == Accumulate(digits, 1, [word |-> Zero64, erange |-> FALSE])

\* Two's complement negation of a word of any number of limbs.
RECURSIVE AddOne(_)
AddOne(w) ==
    IF w = <<>> THEN <<>>
    ELSE IF w[1] + 1 < Limb THEN <<w[1] + 1>> \o Tail(w)
         ELSE <<0>> \o AddOne(Tail(w))

Negate(w) == AddOne([i \in 1..Len(w) |-> Limb - 1 - w[i]])

\* The mathematical value of a machine integer, as sign and magnitude.
SignedValue(w) ==
    IF w[Len(w)] >= HalfLimb
    THEN [neg |-> TRUE, mag |-> Negate(w) \o [i \in 1..(4 - Len(w)) |-> 0]]
    ELSE [neg |-> FALSE, mag |-> w \o [i \in 1..(4 - Len(w)) |-> 0]]

UnsignedValue(w) == [neg |-> FALSE, mag |-> w]

-----------------------------------------------------------------------------
(* Tokens of the response text. *)

Punct(c) == [kind |-> c]

Str(s) == [kind |-> "string", text |-> s]

Word(w) == [kind |-> "literal", text |-> w]

\* A number token: sign, integer digits, fraction digits.
Num(neg, int, frac) == [kind |-> "number", neg |-> neg, int |-> int, frac |-> frac]

-----------------------------------------------------------------------------
(* Decoded values (nlohmann::basic_json). *)

JNull == [type |-> "null"]

JBool(b) == [type |-> "boolean", b |-> b]

JString(s) == [type |-> "string", s |-> s]

JInteger(w) == [type |-> "number_integer", w |-> w]

JUnsigned(w) == [type |-> "number_unsigned", w |-> w]

JFloat(t) == [type |-> "number_float", lexeme |-> t]

JArray(elems) == [type |-> "array", elems |-> elems]

JObject(members) == [type |-> "object", members |-> members]

JDiscarded == [type |-> "discarded"]

\* What json::parse does on a syntax error when allow_exceptions is true.
ParseErrorThrown == [type |-> "parse_error"]

\* The keys the input texts use, in the order std::map keeps them.
KeyOrder == <<"a", "b", "id", "name", "title", "x">>

\* lexer::scan_number: an integer without fraction is unsigned when it has no
\* sign and fits 64 bits, signed when it has a sign and fits, a float otherwise.
ScanNumber(t) ==
    LET m == Magnitude(t.int)
    IN  IF t.int = <<>> \/ (Len(t.int) > 1 /\ t.int[1] = 0) THEN JDiscarded
        ELSE IF t.frac # <<>> \/ m.erange THEN JFloat(t)
        ELSE IF ~t.neg THEN JUnsigned(m.word)
        ELSE IF m.word[4] < HalfLimb \/ m.word = <<0, 0, 0, HalfLimb>>
             THEN JInteger(Negate(m.word))
             ELSE JFloat(t)

ParseFail == [ok |-> FALSE]

ParseOk(v, n) == [ok |-> TRUE, val |-> v, next |-> n]

KindAt(toks, i) == IF i <= Len(toks) THEN toks[i].kind ELSE "eof"

RECURSIVE ParseValue(_, _), ParseElements(_, _, _), ParseMembers(_, _, _)

\* parser::sax_parse_internal on the value starting at token i.
ParseValue(toks, i) ==
    LET k == KindAt(toks, i)
    IN  CASE k = "literal" ->
               IF toks[i].text = "null" THEN ParseOk(JNull, i + 1)
               ELSE IF toks[i].text = "true" THEN ParseOk(JBool(TRUE), i + 1)
               ELSE IF toks[i].text = "false" THEN ParseOk(JBool(FALSE), i + 1)
               ELSE ParseFail
          [] k = "string" -> ParseOk(JString(toks[i].text), i + 1)
          [] k = "number" ->
               LET v == ScanNumber(toks[i])
               IN  IF v = JDiscarded THEN ParseFail ELSE ParseOk(v, i + 1)
          [] k = "[" ->
               IF KindAt(toks, i + 1) = "]" THEN ParseOk(JArray(<<>>), i + 2)
               ELSE ParseElements(toks, i + 1, <<>>)
          [] k = "{" ->
               IF KindAt(toks, i + 1) = "}" THEN ParseOk(JObject(<<>>), i + 2)
               ELSE ParseMembers(toks, i + 1, <<>>)
          [] OTHER -> ParseFail

ParseElements(toks, i, acc) ==
    LET r == ParseValue(toks, i)
    IN  IF ~r.ok THEN ParseFail
        ELSE IF KindAt(toks, r.next) = ","
             THEN ParseElements(toks, r.next + 1, Append(acc, r.val))
        ELSE IF KindAt(toks, r.next) = "]"
             THEN ParseOk(JArray(Append(acc, r.val)), r.next + 1)
        ELSE ParseFail

\* A repeated key overwrites the earlier member (object_t::operator[]).
ParseMembers(toks, i, acc) ==
    IF KindAt(toks, i) # "string" \/ KindAt(toks, i + 1) # ":" THEN ParseFail
    ELSE LET r == ParseValue(toks, i + 2)
         IN  IF ~r.ok THEN ParseFail
             ELSE LET members == (toks[i].text :> r.val) @@ acc
                  IN  IF KindAt(toks, r.next) = ","
                      THEN ParseMembers(toks, r.next + 1, members)
                      ELSE IF KindAt(toks, r.next) = "}"
                           THEN ParseOk(JObject(members), r.next + 1)
                           ELSE ParseFail

\* A variant: the decode called with exceptions left on.
json_parse_throwing(i, allow_exceptions) ==
    LET r == ParseValue(i, 1)
    IN  IF r.ok /\ r.next = Len(i) + 1 THEN r.val ELSE ParseErrorThrown

\* json::parse(i, cb, allow_exceptions): the whole text must be one value.
json_parse(i, allow_exceptions) ==
    LET r == ParseValue(i, 1)
    IN  IF r.ok /\ r.next = Len(i) + 1 THEN r.val
        ELSE IF allow_exceptions THEN ParseErrorThrown
        ELSE JDiscarded

is_discarded(j) == j.type = "discarded"

is_number_integer(j) == j.type \in {"number_integer", "number_unsigned"}

is_string(j) == j.type = "string"

is_object(j) == j.type = "object"

\* The values a range-for over j visits (basic_json::begin/end): the elements
\* of an array, the member values of an object in key order, nothing for
\* null, and the value itself for every other type.
Range(j) ==
    CASE j.type = "array" -> j.elems
      [] j.type = "object" ->
           LET present == SelectSeq(KeyOrder, LAMBDA k : k \in DOMAIN j.members)
           IN  [n \in 1..Len(present) |-> j.members[present[n]]]
      [] j.type = "null" -> <<>>
      [] OTHER -> <<j>>

\* basic_json::find: end() unless j is an object that has the key.
End == [type |-> "end"]

find(j, key) ==
    IF is_object(j) /\ key \in DOMAIN j.members THEN j.members[key] ELSE End

\* it->get<int>(): static_cast<int> of the stored 64-bit integer keeps the
\* low 32 bits.
get_int(j) == <<j.w[1], j.w[2]>>

-----------------------------------------------------------------------------
(* The result type and the record type. *)

\* A piece of message text that is not part of the response.
Text(s) == [kind |-> "text", text |-> s]

StrCat(a, b) == a \o b

NoResult == [code |-> "none"]

OkStatus(value) == [code |-> "OK", value |-> value]

InvalidArgumentError(message) == [code |-> "INVALID_ARGUMENT", message |-> message]

ParseFailedMessage == <<Text("Failed to parse JSON response from IGDB.SearchByTitle.")>>

NoIdMessage == <<Text("Game in response has no 'id' field or has unexpected type.\n")>>

NoTitleMessage == <<Text("Game in response has no 'title' field or has unexpected type.\n")>>

\* search_result_list.add_result(): a record with neither field set.
NewResult == [id |-> <<0, 0>>, has_id |-> FALSE, title |-> "", has_title |-> FALSE]

set_id(result, v) == [result EXCEPT !.id = v, !.has_id = TRUE]

set_title(result, j) == [result EXCEPT !.title = j.s, !.has_title = TRUE]

\* A variant: the list outlives the call (a static or a member).
RetainedSearchResultList == search_result_list

\* The list as line 13 constructs it.
NewSearchResultList == <<>>

\* The condition of line 25 on the element the loop is at.
IdCheckFails(game) ==
    LET it == find(game, "id")
    IN  it = End \/ ~is_number_integer(it)

\* The condition of line 33.
NameCheckFails(game) ==
    LET it == find(game, "name")
    IN  it = End \/ ~is_string(it)

IdError(text) == InvalidArgumentError(StrCat(NoIdMessage, text))

\* A variant: the message without the response text.
NameErrorWithoutText(text) == InvalidArgumentError(NoTitleMessage)

NameError(text) == InvalidArgumentError(StrCat(NoTitleMessage, text))

ParseError == InvalidArgumentError(ParseFailedMessage)

\* The element the loop is at.
game == Range(json_obj)[pos]

-----------------------------------------------------------------------------
(* Input texts. *)

RECURSIVE Separated(_)
Separated(parts) ==
    IF parts = <<>> THEN <<>>
    ELSE IF Len(parts) = 1 THEN parts[1]
    ELSE parts[1] \o <<Punct(",")>> \o Separated(Tail(parts))

ArrayText(elems) == <<Punct("[")>> \o Separated(elems) \o <<Punct("]")>>

ObjectText(members) == <<Punct("{")>> \o Separated(members) \o <<Punct("}")>>

Member(k, v) == <<Str(k), Punct(":")>> \o v

IntegerText(neg, digits) == <<Num(neg, digits, <<>>)>>

\* 7, 2^31, 2^32 + 1, -(2^31) - 1, -1, 2^64 - 1, 2^64 (read as a float)
SmallId == IntegerText(FALSE, <<7>>)

IntegerTexts ==
    { SmallId,
      IntegerText(FALSE, <<2, 1, 4, 7, 4, 8, 3, 6, 4, 8>>),
      IntegerText(FALSE, <<4, 2, 9, 4, 9, 6, 7, 2, 9, 7>>),
      IntegerText(TRUE, <<2, 1, 4, 7, 4, 8, 3, 6, 4, 9>>),
      IntegerText(TRUE, <<1>>),
      IntegerText(FALSE, <<1, 8, 4, 4, 6, 7, 4, 4, 0, 7, 3, 7, 0, 9, 5, 5, 1, 6, 1, 5>>) }

ScalarTexts ==
    { <<Str("A")>>, <<Str("")>>, <<Str("7")>>, <<Word("null")>>, <<Word("true")>>,
      <<Num(FALSE, <<1>>, <<5>>)>>,
      IntegerText(FALSE, <<1, 8, 4, 4, 6, 7, 4, 4, 0, 7, 3, 7, 0, 9, 5, 5, 1, 6, 1, 6>>) }

ValueTexts ==
    IntegerTexts \cup ScalarTexts \cup {ArrayText(<<>>), ObjectText(<<>>)}

GoodName == <<Str("A")>>

GoodElement == ObjectText(<<Member("id", SmallId), Member("name", GoodName)>>)

\* Elements of the top-level array: every kind of value as `id` and as
\* `name`, a field missing, members in either order, other fields, a
\* repeated key, and elements that are not objects.
ElementTexts ==
    { ObjectText(<<Member("id", v), Member("name", GoodName)>>) : v \in ValueTexts }
    \cup { ObjectText(<<Member("id", SmallId), Member("name", v)>>) : v \in ValueTexts }
    \cup { ObjectText(<<Member("name", GoodName)>>),
           ObjectText(<<Member("id", SmallId)>>),
           ObjectText(<<Member("title", GoodName), Member("id", SmallId)>>),
           ObjectText(<<Member("x", <<Word("null")>>), Member("name", <<Str("B")>>),
                        Member("id", IntegerText(FALSE, <<8>>))>>),
           ObjectText(<<Member("id", <<Str("7")>>), Member("id", SmallId),
                        Member("name", GoodName)>>),
           ArrayText(<<GoodElement>>) }
    \cup ValueTexts

\* The elements that longer arrays are built from: a valid one, a valid one
\* whose id does not fit an int, one without `id`, one with a string `id`,
\* one without `name`, one with a number as `name`, a bare number, `{}`.
CoreElements ==
    { GoodElement,
      ObjectText(<<Member("name", <<Str("B")>>),
                   Member("id", IntegerText(FALSE, <<4, 2, 9, 4, 9, 6, 7, 2, 9, 7>>))>>),
      ObjectText(<<Member("name", GoodName)>>),
      ObjectText(<<Member("id", <<Str("7")>>), Member("name", GoodName)>>),
      ObjectText(<<Member("id", SmallId)>>),
      ObjectText(<<Member("id", SmallId), Member("name", SmallId)>>),
      SmallId,
      ObjectText(<<>>) }

TextsOfLen(elements, n) == { ArrayText(s) : s \in [1..n -> elements] }

\* Arrays of up to MaxLen core elements, and every element text alone,
\* before and after each core element.
ArrayTexts ==
    UNION { TextsOfLen(CoreElements, n) : n \in 0..MaxLen }
    \cup TextsOfLen(ElementTexts, 1)
    \cup { ArrayText(<<c, e>>) : c \in CoreElements, e \in ElementTexts }
    \cup { ArrayText(<<e, c>>) : c \in CoreElements, e \in ElementTexts }

\* Documents whose root is not an array: every element text is one, and so
\* is an object that holds elements as its members.
RootTexts ==
    ElementTexts
    \cup { ObjectText(<<Member("b", e), Member("a", GoodElement)>>) : e \in ElementTexts }

\* Texts that are no JSON document: the empty text, words, a cut-off
\* document, text after the document, a dangling comma, a number with a
\* leading zero.
MalformedTexts ==
    UNION { { SubSeq(t, 1, n) : n \in 0..(Len(t) - 1) } : t \in TextsOfLen(ElementTexts, 1) }
    \cup { <<Word("not"), Word("json")>>,
           ArrayText(<<>>) \o ArrayText(<<>>),
           <<Punct("[")>> \o GoodElement \o <<Punct(","), Punct("]")>>,
           ArrayText(<<ObjectText(<<Member("id", IntegerText(FALSE, <<0, 7>>)),
                                    Member("name", GoodName)>>)>>) }

Inputs == ArrayTexts \cup RootTexts \cup MalformedTexts

\* The inputs of the repeated-call specification.
RepeatElements ==
    { GoodElement, ObjectText(<<Member("id", SmallId)>>),
      ObjectText(<<Member("id", IntegerText(FALSE, <<2, 1, 4, 7, 4, 8, 3, 6, 4, 8>>)),
                   Member("name", <<Str("B")>>)>>) }

RepeatInputs ==
    UNION { TextsOfLen(RepeatElements, n) : n \in 0..MaxRepeatLen }
    \cup RepeatElements
    \cup { <<>>, <<Word("null")>>, <<Word("not"), Word("json")>> }

-----------------------------------------------------------------------------
(* The call, one action per step of the function body. *)

NoMemo == [set |-> FALSE]

Init ==
    /\ pc = "idle"
    /\ json_response = <<>>
    /\ json_obj = JNull
    /\ pos = 0
    /\ search_result_list = <<>>
    /\ ret = NoResult
    /\ memo = NoMemo

\* Lines 11-15: the call with its argument, the empty list, the decode.
Enter(text) ==
    /\ pc = "idle"
    /\ json_response' = text
    /\ search_result_list' = NewSearchResultList
    /\ json_obj' = json_parse(text, FALSE)
    /\ pc' = IF json_obj' = ParseErrorThrown THEN "thrown" ELSE "L16"
    /\ pos' = 0
    /\ ret' = NoResult
    /\ UNCHANGED memo

Call == \E text \in Inputs : Enter(text)

RepeatCall == \E text \in RepeatInputs : Enter(text)

\* Lines 16-19.
ReturnParseError ==
    /\ pc = "L16"
    /\ is_discarded(json_obj)
    /\ ret' = ParseError
    /\ pc' = "done"
    /\ UNCHANGED <<json_response, json_obj, pos, search_result_list, memo>>

\* Line 16 false, line 21: the iterator starts at begin().
LoopBegin ==
    /\ pc = "L16"
    /\ ~is_discarded(json_obj)
    /\ pos' = 1
    /\ pc' = "L21"
    /\ UNCHANGED <<json_response, json_obj, search_result_list, ret, memo>>

\* A variant: elements that are not objects are passed over.
LoopNextSkippingNonObjects ==
    /\ pc = "L21"
    /\ pos <= Len(Range(json_obj))
    /\ IF is_object(game)
       THEN /\ search_result_list' = Append(search_result_list, NewResult)
            /\ pc' = "L24"
            /\ UNCHANGED pos
       ELSE /\ pos' = pos + 1
            /\ UNCHANGED <<pc, search_result_list>>
    /\ UNCHANGED <<json_response, json_obj, ret, memo>>

\* Lines 21-22: another element, a new record for it.
LoopNext ==
    /\ pc = "L21"
    /\ pos <= Len(Range(json_obj))
    /\ search_result_list' = Append(search_result_list, NewResult)
    /\ pc' = "L24"
    /\ UNCHANGED <<json_response, json_obj, pos, ret, memo>>

\* A variant: an element without integer `id` is passed over.
ContinueOnIdError ==
    /\ pc = "L24"
    /\ IdCheckFails(game)
    /\ pos' = pos + 1
    /\ pc' = "L21"
    /\ UNCHANGED <<json_response, json_obj, search_result_list, ret, memo>>

\* Lines 24-29.
ReturnIdError ==
    /\ pc = "L24"
    /\ IdCheckFails(game)
    /\ ret' = IdError(json_response)
    /\ pc' = "done"
    /\ UNCHANGED <<json_response, json_obj, pos, search_result_list, memo>>

\* Lines 24-30.
SetId ==
    /\ pc = "L24"
    /\ ~IdCheckFails(game)
    /\ search_result_list' =
          [search_result_list EXCEPT
              ![Len(search_result_list)] = set_id(@, get_int(find(game, "id")))]
    /\ pc' = "L32"
    /\ UNCHANGED <<json_response, json_obj, pos, ret, memo>>

\* A variant: a missing title is left at its default and the loop goes on.
DefaultTitleOnNameError ==
    /\ pc = "L32"
    /\ NameCheckFails(game)
    /\ pos' = pos + 1
    /\ pc' = "L21"
    /\ UNCHANGED <<json_response, json_obj, search_result_list, ret, memo>>

\* A variant: the records assembled so far are returned.
ReturnPartialListOnNameError ==
    /\ pc = "L32"
    /\ NameCheckFails(game)
    /\ ret' = OkStatus(search_result_list)
    /\ pc' = "done"
    /\ UNCHANGED <<json_response, json_obj, pos, search_result_list, memo>>

\* Lines 32-37.
ReturnNameError ==
    /\ pc = "L32"
    /\ NameCheckFails(game)
    /\ ret' = NameError(json_response)
    /\ pc' = "done"
    /\ UNCHANGED <<json_response, json_obj, pos, search_result_list, memo>>

\* Lines 32-39: the title, and the iterator moves on.
SetTitle ==
    /\ pc = "L32"
    /\ ~NameCheckFails(game)
    /\ search_result_list' =
          [search_result_list EXCEPT
              ![Len(search_result_list)] = set_title(@, find(game, "name"))]
    /\ pos' = pos + 1
    /\ pc' = "L21"
    /\ UNCHANGED <<json_response, json_obj, ret, memo>>

\* Line 41, when the iterator is at end().
ReturnList ==
    /\ pc = "L21"
    /\ pos > Len(Range(json_obj))
    /\ ret' = OkStatus(search_result_list)
    /\ pc' = "done"
    /\ UNCHANGED <<json_response, json_obj, pos, search_result_list, memo>>

\* The caller has the result; the parser can be called again.
Release ==
    /\ pc = "done"
    /\ pc' = "idle"
    /\ UNCHANGED <<json_response, json_obj, pos, search_result_list, ret, memo>>

\* The same, and the caller keeps the result to compare a later call with.
ReleaseAndKeep ==
    /\ pc = "done"
    /\ memo = NoMemo
    /\ memo' = [set |-> TRUE, text |-> json_response, ret |-> ret]
    /\ pc' = "idle"
    /\ UNCHANGED <<json_response, json_obj, pos, search_result_list, ret>>

Body ==
    \/ ReturnParseError
    \/ LoopBegin
    \/ LoopNext
    \/ ReturnIdError
    \/ SetId
    \/ ReturnNameError
    \/ SetTitle
    \/ ReturnList

Next == Call \/ Body

Spec == Init /\ [][Next]_vars

RepeatNext == RepeatCall \/ Body \/ Release \/ ReleaseAndKeep

SpecRepeat == Init /\ [][RepeatNext]_vars

-----------------------------------------------------------------------------
(* What the claims speak of. *)

Done == pc = "done"

Succeeded == Done /\ ret.code = "OK"

Failed == Done /\ ret.code = "INVALID_ARGUMENT"

\* A failure carries a message and nothing else: there is no list in it.
CarriesNoList == "value" \notin DOMAIN ret

\* The two error kinds are told apart by the message the status carries.
MalformedDocument == Failed /\ ret.message = ParseFailedMessage

InvalidElement == Failed /\ Head(ret.message) \in {NoIdMessage[1], NoTitleMessage[1]}

\* The text is one JSON value and nothing else.
Decodes(text) ==
    LET r == ParseValue(text, 1)
    IN  r.ok /\ r.next = Len(text) + 1

HasIntegerId(e) ==
    /\ e.type = "object"
    /\ "id" \in DOMAIN e.members
    /\ e.members["id"].type \in {"number_integer", "number_unsigned"}

HasStringName(e) ==
    /\ e.type = "object"
    /\ "name" \in DOMAIN e.members
    /\ e.members["name"].type = "string"

\* The integer a decoded number stands for.
SourceValue(j) ==
    IF j.type = "number_unsigned" THEN UnsignedValue(j.w) ELSE SignedValue(j.w)

RootIsArray == json_obj.type = "array"

Elements == json_obj.elems

\* The call has started (the variables hold this call's data).
InCall == pc # "idle"

-----------------------------------------------------------------------------
(* C1 *)

\* C1: when the root is an array whose elements all are objects with an
\* integer `id` and a string `name`, the call succeeds with one record per
\* element, in order, record i holding element i's id and name.
C1_WellFormedArrayParsed ==
    (Done /\ RootIsArray
          /\ \A i \in 1..Len(Elements) : HasIntegerId(Elements[i]) /\ HasStringName(Elements[i]))
    => /\ Succeeded
       /\ Len(ret.value) = Len(Elements)
       /\ \A i \in 1..Len(Elements) :
             /\ SignedValue(ret.value[i].id) = SourceValue(Elements[i].members["id"])
             /\ ret.value[i].title = Elements[i].members["name"].s

-----------------------------------------------------------------------------
(* C2 *)

\* C2: a text that decodes to something other than an array fails with
\* MalformedDocument and returns no list.
C2_NonArrayRootIsMalformed ==
    (Done /\ ~is_discarded(json_obj) /\ ~RootIsArray)
    => MalformedDocument /\ CarriesNoList

-----------------------------------------------------------------------------
(* C3 *)

\* C3: when some element of the top-level array has no integer `id`, the
\* call fails with InvalidElement and returns no list, whatever the other
\* elements are.
C3_BadIdFailsWholeCall ==
    (Done /\ RootIsArray /\ \E i \in 1..Len(Elements) : ~HasIntegerId(Elements[i]))
    => InvalidElement /\ CarriesNoList

\* A valid element, then one without integer `id`, then more elements.
C3_Witness ==
    /\ Done /\ RootIsArray /\ Len(Elements) = 3
    /\ HasIntegerId(Elements[1]) /\ HasStringName(Elements[1])
    /\ Elements[2].type = "object" /\ ~HasIntegerId(Elements[2])
    /\ HasIntegerId(Elements[3]) /\ HasStringName(Elements[3])
    /\ InvalidElement

-----------------------------------------------------------------------------
(* C4 *)

\* C4: when some element of the top-level array has no string `name`, the
\* call fails with InvalidElement and returns no list; no record gets a
\* default title in its place.
C4_BadNameFailsWholeCall ==
    (Done /\ RootIsArray /\ \E i \in 1..Len(Elements) : ~HasStringName(Elements[i]))
    => InvalidElement /\ CarriesNoList

\* The only invalid thing in the array is a missing or mistyped `name`.
C4_Witness ==
    /\ Done /\ RootIsArray /\ Len(Elements) >= 2
    /\ \A i \in 1..Len(Elements) : HasIntegerId(Elements[i])
    /\ \E i \in 1..Len(Elements) : ~HasStringName(Elements[i])
    /\ ret = NameError(json_response)

-----------------------------------------------------------------------------
(* C5 *)

\* C5: an element-level failure carries the whole input text, verbatim,
\* after the message of the check that failed.
C5_ErrorCarriesWholeText ==
    InvalidElement => Tail(ret.message) = json_response

\* The `name` path, on a text of more than one element.
C5_Witness ==
    /\ InvalidElement
    /\ ret.message[1] = NoTitleMessage[1]
    /\ RootIsArray /\ Len(Elements) >= 2
    /\ Len(json_response) > 10

-----------------------------------------------------------------------------
(* C6 *)

\* C6: for a text that is no JSON document the decode leaves a discarded
\* value and throws nothing, the return of line 17 is the step that follows, no
\* element is examined, and the result is MalformedDocument without a list.
C6_UndecodableIsMalformed ==
    (InCall /\ ~Decodes(json_response))
    => /\ pc \in {"L16", "done"}
       /\ is_discarded(json_obj)
       /\ pos = 0 /\ search_result_list = <<>>
       /\ pc = "L16" => ENABLED ReturnParseError
       /\ Done => MalformedDocument /\ CarriesNoList

\* A cut-off document has been answered.
C6_Witness ==
    /\ Done /\ MalformedDocument
    /\ Len(json_response) > 3
    /\ json_response[1] = Punct("[")

-----------------------------------------------------------------------------
(* C7 *)

\* C7: the caller gets either a failure without a list, or a list holding,
\* for every element the document has at its top level, one record with
\* both fields set from that element, which passed both checks.
C7_AllOrNothing ==
    Done =>
       \/ Failed /\ CarriesNoList
       \/ /\ Succeeded
          /\ Len(ret.value) = Len(Range(json_obj))
          /\ \A i \in 1..Len(ret.value) :
                LET e == Range(json_obj)[i]
                    r == ret.value[i]
                IN  /\ HasIntegerId(e) /\ HasStringName(e)
                    /\ r.has_id /\ r.has_title
                    /\ r.id = <<e.members["id"].w[1], e.members["id"].w[2]>>
                    /\ r.title = e.members["name"].s

\* Both outcomes: this one is a failure after records had been assembled.
C7_Witness ==
    /\ Failed /\ CarriesNoList
    /\ Len(search_result_list) = 3
    /\ search_result_list[1].has_title /\ search_result_list[2].has_title
    /\ ~search_result_list[3].has_title

-----------------------------------------------------------------------------
(* C8 *)

\* C8: a call returns what an earlier call with the same text returned,
\* whatever was called in between.
C8_SameTextSameResult ==
    (Done /\ memo # NoMemo /\ memo.text = json_response) => ret = memo.ret

\* The same text again, a text of two valid elements.
C8_Witness ==
    /\ Done /\ memo # NoMemo /\ memo.text = json_response
    /\ Succeeded /\ Len(ret.value) = 2
    /\ Len(search_result_list) = 2

-----------------------------------------------------------------------------
(* C9 *)

\* C9: the id stored by line 30 is the integer the element holds.
C9_StoredIdIsExact ==
    pc = "L32" =>
       SignedValue(search_result_list[Len(search_result_list)].id)
          = SourceValue(find(game, "id"))

-----------------------------------------------------------------------------
(* C10 *)

\* The first element of the array that is not an object (0: there is none).
FirstNonObject ==
    IF \E i \in 1..Len(Elements) : Elements[i].type # "object"
    THEN CHOOSE i \in 1..Len(Elements) :
            /\ Elements[i].type # "object"
            /\ \A k \in 1..(i - 1) : Elements[k].type = "object"
    ELSE 0

\* C10: when the top-level array has an element that is not an object, the
\* loop never gets past the first such element, no record is made of it,
\* the call fails with InvalidElement, and when the loop reached that
\* element it is its `id` check that failed.
C10_NonObjectElementFails ==
    (InCall /\ RootIsArray /\ FirstNonObject # 0)
    => /\ pos <= FirstNonObject
       /\ Done => /\ InvalidElement /\ CarriesNoList
                  /\ pos = FirstNonObject => ret = IdError(json_response)

\* Two valid elements, then a non-object: the loop reached it and failed.
C10_Witness ==
    /\ Done /\ RootIsArray /\ FirstNonObject = 3
    /\ pos = 3
    /\ ret = IdError(json_response)

====
